---- MODULE Spec2Model ----
(***************************************************************************)
(* A model of app.py of cvtailor: the generator `generate`, the handler    *)
(* `clear_all`, and the three text fields that create_demo wires them to.  *)
(*                                                                         *)
(* Text is a sequence of tokens.  The characters of the user's inputs and  *)
(* of the model's fragments are one token each; each fixed message of the  *)
(* program is one token holding the whole message.                         *)
(*                                                                         *)
(* One call of generate runs at a time (the click listener of lines        *)
(* 168-172 keeps the default concurrency limit of one); Clear All is a     *)
(* listener of its own and may run at any point of a call.  The stream and *)
(* parts_as_text are iterables of the environment: what they hand to the   *)
(* loops of lines 96 and 111 is chosen when the loop asks for it.  The     *)
(* contents of the output textbox come from the updates alone.             *)
(***************************************************************************)
EXTENDS Integers, Sequences, FiniteSets, TLC

\* ------------------------------------------------------------------ bounds
MaxItems == 3         \* most chunks and pieces one stream hands to the loop
MaxGenerations == 2   \* most clicks on "Tailor Resume" in one behaviour

\* ------------------------------------------------------------- text values
\* what the user types: nothing, whitespace only, text inside whitespace
InputTexts == {<<>>, <<" ">>, <<" ", "x", " ">>}
\* the texts a piece of parts_as_text may be: the empty text and two texts
\* that differ
PieceTexts == {<<>>, <<"a">>, <<"a", "a">>}

\* str.strip(): drop the leading and the trailing whitespace
RECURSIVE lstrip(_)
lstrip(s) == IF s # <<>> /\ Head(s) = " " THEN lstrip(Tail(s)) ELSE s

RECURSIVE rstrip(_)
rstrip(s) ==
  IF s # <<>> /\ s[Len(s)] = " " THEN rstrip(SubSeq(s, 1, Len(s) - 1)) ELSE s

strip(s) == rstrip(lstrip(s))

\* ---------------------------------------------------------------- messages
MsgBoth == <<"Please provide a job description and resume template to tailor.">>
MsgNoJD == <<"Please paste the job description before tailoring your resume.">>
MsgNoResume == <<"Please paste your current resume template before tailoring.">>
MsgRetry ==
  <<"We ran into an issue while tailoring the resume. Please try again in a moment.">>
MsgInvalidKey == <<"invalid key">>

\* ----------------------------------------------------------- stream chunks
\* StreamChunk = str | dict: a plain string, or the dict gr.update builds
StrChunk(text) == [kind |-> "str", value |-> text, append |-> FALSE]
gr_update(text, app) == [kind |-> "update", value |-> text, append |-> app]

\* what utils.validate_key returns: None, or the value to show
None == [isNone |-> TRUE, value |-> <<>>]
Some(text) == [isNone |-> FALSE, value |-> text]

Requests == {"valid_key", "invalid_key"}
validate_key(request) ==
  IF request = "valid_key" THEN None ELSE Some(MsgInvalidKey)

\* a chunk of generate_content_stream: a list of candidates, each of which
\* may be None or carry no content
NoneCandidate == [isNone |-> TRUE, hasContent |-> FALSE]
EmptyCandidate == [isNone |-> FALSE, hasContent |-> FALSE]
ContentCandidate == [isNone |-> FALSE, hasContent |-> TRUE]
Candidates == {NoneCandidate, EmptyCandidate, ContentCandidate}
Chunks ==
  {[candidates |-> <<>>]}
    \cup {[candidates |-> <<c>>] : c \in Candidates}
    \cup {[candidates |-> <<NoneCandidate, ContentCandidate>>]}

\* ------------------------------------------------------- generate's tests
\* a variant that forgets strip()
IsBlank_NoStrip(s) == s = <<>>

IsBlank(s) == strip(s) = <<>>

\* a variant with the two single-input messages exchanged
EarlyExit_Swapped(validate_key_result, job_description, current_resume_template) ==
  IF ~validate_key_result.isNone THEN Some(validate_key_result.value)
  ELSE IF IsBlank(job_description) /\ IsBlank(current_resume_template)
    THEN Some(MsgBoth)
  ELSE IF IsBlank(job_description) THEN Some(MsgNoResume)
  ELSE IF IsBlank(current_resume_template) THEN Some(MsgNoJD)
  ELSE None

\* a variant that looks at the inputs before the key
EarlyExit_InputsFirst(validate_key_result, job_description, current_resume_template) ==
  IF IsBlank(job_description) /\ IsBlank(current_resume_template)
    THEN Some(MsgBoth)
  ELSE IF IsBlank(job_description) THEN Some(MsgNoJD)
  ELSE IF IsBlank(current_resume_template) THEN Some(MsgNoResume)
  ELSE IF ~validate_key_result.isNone THEN Some(validate_key_result.value)
  ELSE None

\* lines 39-54: the value generate yields before it returns early, or None
\* when it goes on to the generation service
EarlyExit(validate_key_result, job_description, current_resume_template) ==
  IF ~validate_key_result.isNone THEN Some(validate_key_result.value)
  ELSE IF IsBlank(job_description) /\ IsBlank(current_resume_template)
    THEN Some(MsgBoth)
  ELSE IF IsBlank(job_description) THEN Some(MsgNoJD)
  ELSE IF IsBlank(current_resume_template) THEN Some(MsgNoResume)
  ELSE None

\* a variant that looks at the last candidate instead of the first
ChunkSkipped_Last(chunk) ==
  \/ chunk.candidates = <<>>
  \/ chunk.candidates[Len(chunk.candidates)].isNone
  \/ ~chunk.candidates[Len(chunk.candidates)].hasContent

\* lines 101-106: the chunk is passed over
ChunkSkipped(chunk) ==
  \/ chunk.candidates = <<>>
  \/ chunk.candidates[1].isNone
  \/ ~chunk.candidates[1].hasContent

\* a variant without the test of lines 112-113
PieceSkipped_Never(piece) == FALSE

\* lines 112-113: the piece is passed over
PieceSkipped(piece) == piece = <<>>

\* a variant that leaves out append=True
PieceUpdate_Replace(piece) == gr_update(piece, FALSE)

\* line 114
PieceUpdate(piece) == gr_update(piece, TRUE)

\* a variant that appends the retry message
ErrorUpdate_Append == gr_update(MsgRetry, TRUE)

\* lines 117-122
ErrorUpdate == gr_update(MsgRetry, FALSE)

\* a variant whose third value, the one for the output, is not empty
clear_all_TwoFields == <<<<>>, <<>>, <<"a">>>>

\* lines 125-127
clear_all == <<<<>>, <<>>, <<>>>>

\* the output textbox showing one value yielded to it
ApplyUpdate(shown, u) ==
  IF u.kind = "update" /\ u.append THEN shown \o u.value ELSE u.value

\* --------------------------------------------------------------- the state
VARIABLES
  jd,               \* the Job Description textbox
  current_resume,   \* the Current Resume Template textbox
  output_resume,    \* the output textbox
  pc,               \* where the running call of generate stands
  args,             \* the arguments of the running call
  yielded,          \* history: the values the call has yielded, in order
  consumed,         \* history: the skipped chunks and the pieces the loops
                    \*   have looked at, in order
  last,             \* history: the step taken last and what it looked at
  outcome,          \* history: how the call went
  clientBuilt,      \* history: genai.Client was constructed in this call
  serviceCalls,     \* history: calls of generate_content_stream in this call
  outputAtStart,    \* history: the output textbox when the call began
  cleared,          \* history: Clear All was clicked since the call began
  generations       \* number of clicks on Tailor Resume so far

vars == <<jd, current_resume, output_resume, pc, args, yielded, consumed, last,
          outcome, clientBuilt, serviceCalls, outputAtStart, cleared,
          generations>>

genVars == <<pc, args, yielded, consumed, outcome, clientBuilt, serviceCalls,
             outputAtStart, generations>>

NoArgs == [job_description |-> <<>>, current_resume_template |-> <<>>,
           request |-> "valid_key"]

Step(op) == [op |-> op, candidates |-> <<>>, text |-> <<>>]
ChunkStep(chunk) == [op |-> "chunk", candidates |-> chunk.candidates, text |-> <<>>]
PieceStep(piece) == [op |-> "piece", candidates |-> <<>>, text |-> piece]

SkippedChunkItem == [kind |-> "chunk", text |-> <<>>]
PieceItem(piece) == [kind |-> "piece", text |-> piece]

Idle == pc \in {"idle", "done", "raised"}

Init ==
  /\ jd = <<>>
  /\ current_resume = <<>>
  /\ output_resume = <<>>
  /\ pc = "idle"
  /\ args = NoArgs
  /\ yielded = <<>>
  /\ consumed = <<>>
  /\ last = Step("init")
  /\ outcome = "none"
  /\ clientBuilt = FALSE
  /\ serviceCalls = 0
  /\ outputAtStart = <<>>
  /\ cleared = FALSE
  /\ generations = 0

\* the generator yields u: the output textbox shows it
Yield(u) ==
  /\ yielded' = Append(yielded, u)
  /\ output_resume' = ApplyUpdate(output_resume, u)

NoYield == UNCHANGED <<yielded, output_resume>>

\* ------------------------------------------------------------- the user
\* submit_btn.click (lines 168-172): the user has filled the two input boxes
\* and clicks Tailor Resume; generate is called with the boxes' values
Submit ==
  /\ Idle
  /\ generations < MaxGenerations
  /\ generations' = generations + 1
  /\ \E job_description \in InputTexts, current_resume_template \in InputTexts,
        request \in Requests :
       /\ jd' = job_description
       /\ current_resume' = current_resume_template
       /\ args' = [job_description |-> job_description,
                   current_resume_template |-> current_resume_template,
                   request |-> request]
  /\ pc' = "begin"
  /\ yielded' = <<>>
  /\ consumed' = <<>>
  /\ outcome' = "running"
  /\ clientBuilt' = FALSE
  /\ serviceCalls' = 0
  /\ outputAtStart' = output_resume
  /\ cleared' = FALSE
  /\ last' = Step("submit")
  /\ UNCHANGED output_resume

\* clear_btn.click (lines 174-178)
Clear ==
  /\ jd' = clear_all[1]
  /\ current_resume' = clear_all[2]
  /\ output_resume' = clear_all[3]
  /\ cleared' = TRUE
  /\ last' = Step("clear")
  /\ UNCHANGED genVars

\* ------------------------------------------------------------- generate
\* lines 39-54
Begin ==
  /\ pc = "begin"
  /\ LET early == EarlyExit(validate_key(args.request), args.job_description,
                            args.current_resume_template)
     IN  IF early.isNone
           THEN /\ pc' = "client"
                /\ outcome' = outcome
                /\ NoYield
           ELSE /\ pc' = "done"
                /\ outcome' = "early"
                /\ Yield(StrChunk(early.value))
  /\ last' = Step("begin")
  /\ UNCHANGED <<jd, current_resume, args, consumed, clientBuilt, serviceCalls,
                 outputAtStart, cleared, generations>>

\* lines 56-60: genai.Client(...) returns
ClientOk ==
  /\ pc = "client"
  /\ clientBuilt' = TRUE
  /\ pc' = "call"
  /\ last' = Step("client")
  /\ UNCHANGED <<jd, current_resume, output_resume, args, yielded, consumed,
                 outcome, serviceCalls, outputAtStart, cleared, generations>>

\* lines 56-60: genai.Client(...) raises, outside the try statement
ClientRaises ==
  /\ pc = "client"
  /\ pc' = "raised"
  /\ outcome' = "client_failed"
  /\ last' = Step("client")
  /\ UNCHANGED <<jd, current_resume, output_resume, args, yielded, consumed,
                 clientBuilt, serviceCalls, outputAtStart, cleared, generations>>

\* lines 96-100: generate_content_stream is called and returns the stream
CallOk ==
  /\ pc = "call"
  /\ serviceCalls' = serviceCalls + 1
  /\ pc' = "for_chunk"
  /\ last' = Step("call")
  /\ UNCHANGED <<jd, current_resume, output_resume, args, yielded, consumed,
                 outcome, clientBuilt, outputAtStart, cleared, generations>>

\* lines 115-122: the except clause
Caught(how) ==
  /\ pc' = "done"
  /\ outcome' = how
  /\ Yield(ErrorUpdate)
  /\ last' = Step("except")

\* lines 96-100, 115-122: the call of generate_content_stream raises
CallRaises ==
  /\ pc = "call"
  /\ serviceCalls' = serviceCalls + 1
  /\ Caught("call_failed")
  /\ UNCHANGED <<jd, current_resume, args, consumed, clientBuilt,
                 outputAtStart, cleared, generations>>

\* lines 96-106: the stream delivers a chunk
NextChunk ==
  /\ pc = "for_chunk"
  /\ Len(consumed) < MaxItems
  /\ \E chunk \in Chunks :
       /\ last' = ChunkStep(chunk)
       /\ IF ChunkSkipped(chunk)
            THEN /\ pc' = "for_chunk"
                 /\ consumed' = Append(consumed, SkippedChunkItem)
            ELSE /\ pc' = "for_piece"
                 /\ consumed' = consumed
  /\ NoYield
  /\ UNCHANGED <<jd, current_resume, args, outcome, clientBuilt, serviceCalls,
                 outputAtStart, cleared, generations>>

\* lines 108-114: parts_as_text hands the loop its next piece
NextPiece ==
  /\ pc = "for_piece"
  /\ Len(consumed) < MaxItems
  /\ \E piece \in PieceTexts :
       /\ last' = PieceStep(piece)
       /\ consumed' = Append(consumed, PieceItem(piece))
       /\ IF PieceSkipped(piece) THEN NoYield ELSE Yield(PieceUpdate(piece))
  /\ UNCHANGED <<jd, current_resume, pc, args, outcome, clientBuilt,
                 serviceCalls, outputAtStart, cleared, generations>>

\* line 111: parts_as_text is exhausted, back to the loop over the stream
PiecesEnd ==
  /\ pc = "for_piece"
  /\ pc' = "for_chunk"
  /\ last' = Step("pieces_end")
  /\ UNCHANGED <<jd, current_resume, output_resume, args, yielded, consumed,
                 outcome, clientBuilt, serviceCalls, outputAtStart, cleared,
                 generations>>

\* line 96: the stream is exhausted and generate returns
StreamEnds ==
  /\ pc = "for_chunk"
  /\ pc' = "done"
  /\ outcome' = "ok"
  /\ last' = Step("stream_end")
  /\ UNCHANGED <<jd, current_resume, output_resume, args, yielded, consumed,
                 clientBuilt, serviceCalls, outputAtStart, cleared, generations>>

\* lines 96, 115-122: the stream raises instead of delivering a chunk
StreamRaises ==
  /\ pc = "for_chunk"
  /\ Caught("stream_failed")
  /\ UNCHANGED <<jd, current_resume, args, consumed, clientBuilt, serviceCalls,
                 outputAtStart, cleared, generations>>

Next ==
  \/ Submit
  \/ Clear
  \/ Begin
  \/ ClientOk
  \/ ClientRaises
  \/ CallOk
  \/ CallRaises
  \/ NextChunk
  \/ NextPiece
  \/ PiecesEnd
  \/ StreamEnds
  \/ StreamRaises

Spec == Init /\ [][Next]_vars

\* ================================================================ claims
\* what the claims speak of, stated apart from the definitions above

WhitespaceOnly(s) == \A i \in 1..Len(s) : s[i] = " "
BothBlank ==
  WhitespaceOnly(args.job_description) /\ WhitespaceOnly(args.current_resume_template)
OnlyJDBlank ==
  WhitespaceOnly(args.job_description) /\ ~WhitespaceOnly(args.current_resume_template)
OnlyResumeBlank ==
  ~WhitespaceOnly(args.job_description) /\ WhitespaceOnly(args.current_resume_template)
KeyValid == args.request = "valid_key"
InCall == pc # "idle"
NoService == ~clientBuilt /\ serviceCalls = 0 /\ consumed = <<>>
Replacement(text) == [kind |-> "update", value |-> text, append |-> FALSE]
Appending(text) == [kind |-> "update", value |-> text, append |-> TRUE]
PlainValue(text) == [kind |-> "str", value |-> text, append |-> FALSE]

\* the non-empty fragments among the items, in order
RECURSIVE Fragments(_)
Fragments(items) ==
  IF items = <<>> THEN <<>>
  ELSE LET rest == Fragments(Tail(items))
       IN  IF Head(items).kind = "piece" /\ Len(Head(items).text) > 0
             THEN <<Head(items).text>> \o rest
             ELSE rest

AppendUpdates(texts) == [i \in 1..Len(texts) |-> Appending(texts[i])]

RECURSIVE Concat(_)
Concat(texts) == IF texts = <<>> THEN <<>> ELSE Head(texts) \o Concat(Tail(texts))

Contains(text, part) ==
  \E i \in 0..(Len(text) - Len(part)) : SubSeq(text, i + 1, i + Len(part)) = part

StreamFailed == outcome \in {"call_failed", "stream_failed"}

\* ---------------------------------------------------------------------- C1
\* C1 as stated: in every call of generate whose two inputs are both blank
\* the service is never invoked and the result is exactly the one message
\* MsgBoth.
C1_AsStated ==
  (InCall /\ BothBlank) =>
    /\ NoService
    /\ pc = "done" => yielded = <<PlainValue(MsgBoth)>>

\* C1 as amended: in every call of generate that passes the key validation
\* and whose two inputs are both blank, the service is never invoked and the
\* result is exactly the one message MsgBoth.
C1_BothBlank ==
  (InCall /\ KeyValid /\ BothBlank) =>
    /\ NoService
    /\ pc \in {"begin", "done"}
    /\ pc = "done" => yielded = <<PlainValue(MsgBoth)>>

C1_Witness ==
  /\ pc = "done" /\ KeyValid
  /\ args.job_description = <<" ">> /\ args.current_resume_template = <<>>
  /\ yielded = <<PlainValue(MsgBoth)>>

\* ---------------------------------------------------------------------- C2
\* C2 as stated: when exactly one input is blank generate yields exactly one
\* update naming the missing input and ends without invoking the service.
C2_AsStated ==
  /\ (InCall /\ OnlyJDBlank) =>
       NoService /\ (pc = "done" => yielded = <<PlainValue(MsgNoJD)>>)
  /\ (InCall /\ OnlyResumeBlank) =>
       NoService /\ (pc = "done" => yielded = <<PlainValue(MsgNoResume)>>)

\* C2 as amended: when the key validation passes and exactly one input is
\* blank, generate yields exactly one update naming the missing input and
\* ends without invoking the service.
C2_OneBlank ==
  /\ (InCall /\ KeyValid /\ OnlyJDBlank) =>
       /\ NoService
       /\ pc \in {"begin", "done"}
       /\ pc = "done" => yielded = <<PlainValue(MsgNoJD)>>
  /\ (InCall /\ KeyValid /\ OnlyResumeBlank) =>
       /\ NoService
       /\ pc \in {"begin", "done"}
       /\ pc = "done" => yielded = <<PlainValue(MsgNoResume)>>

C2_Witness ==
  /\ pc = "done" /\ KeyValid
  /\ args.job_description = <<" ">>
  /\ args.current_resume_template = <<" ", "x", " ">>
  /\ yielded = <<PlainValue(MsgNoJD)>>

\* ---------------------------------------------------------------------- C3
\* C3: when the validator returns a value other than None, generate yields
\* that value as its only update and ends; the client is never constructed
\* and the service never invoked, whatever the two inputs are.
C3_InvalidKey ==
  (InCall /\ ~validate_key(args.request).isNone) =>
    /\ NoService
    /\ pc \in {"begin", "done"}
    /\ pc = "done" => yielded = <<PlainValue(validate_key(args.request).value)>>

C3_Witness ==
  /\ pc = "done" /\ args.request = "invalid_key"
  /\ ~WhitespaceOnly(args.job_description)
  /\ ~WhitespaceOnly(args.current_resume_template)
  /\ yielded = <<PlainValue(MsgInvalidKey)>>

\* ---------------------------------------------------------------------- C4
\* C4: when the stream ends without error, generate has yielded exactly one
\* append update for each non-empty fragment, with the fragment's text, in
\* the order of arrival.
C4_OnePerFragment ==
  (pc = "done" /\ outcome = "ok") => yielded = AppendUpdates(Fragments(consumed))

C4_Witness ==
  /\ pc = "done" /\ outcome = "ok"
  /\ yielded = <<Appending(<<"a">>), Appending(<<"a", "a">>), Appending(<<"a">>)>>

\* ---------------------------------------------------------------------- C5
\* C5: a chunk without candidates, a chunk whose first candidate is None or
\* has no content, and an empty piece give no update; the updates so far are
\* those of the non-empty fragments, and the loop goes on.
SkippedChunkSeen ==
  /\ last.op = "chunk"
  /\ \/ last.candidates = <<>>
     \/ last.candidates[1].isNone
     \/ ~last.candidates[1].hasContent

EmptyPieceSeen == last.op = "piece" /\ last.text = <<>>

C5_SkipsEmitNothing ==
  /\ SkippedChunkSeen =>
       /\ pc = "for_chunk" /\ outcome = "running"
       /\ yielded = AppendUpdates(Fragments(consumed))
  /\ EmptyPieceSeen =>
       /\ pc = "for_piece" /\ outcome = "running"
       /\ yielded = AppendUpdates(Fragments(consumed))
  /\ pc \in {"for_chunk", "for_piece"} =>
       yielded = AppendUpdates(Fragments(consumed))

\* "A", "", "B": the empty piece is passed over and the next one is yielded
C5_Witness ==
  /\ pc = "for_piece"
  /\ consumed = <<[kind |-> "piece", text |-> <<"a">>],
                  [kind |-> "piece", text |-> <<>>],
                  [kind |-> "piece", text |-> <<"a", "a">>]>>
  /\ yielded = <<Appending(<<"a">>), Appending(<<"a", "a">>)>>

\* ---------------------------------------------------------------------- C6
\* C6: when the stream raises after k non-empty fragments, generate has
\* yielded exactly their k append updates, in order, and then one
\* replacement update with the retry message.
C6_ErrorUpdateLast ==
  (pc = "done" /\ StreamFailed) =>
    yielded = AppendUpdates(Fragments(consumed)) \o <<Replacement(MsgRetry)>>

C6_Witness ==
  /\ pc = "done" /\ outcome = "stream_failed"
  /\ yielded = <<Appending(<<"a">>), Appending(<<"a", "a">>), Replacement(MsgRetry)>>

\* ---------------------------------------------------------------------- C7
\* C7 as stated: after the error update has been applied, the output still
\* shows the text of every fragment yielded before the failure.
C7_AsStated ==
  (pc = "done" /\ outcome = "stream_failed" /\ ~cleared) =>
    \A i \in 1..Len(Fragments(consumed)) :
      Contains(output_resume, Fragments(consumed)[i])

\* C7 as amended: the append updates yielded before the failure stay in the
\* sequence of updates, but the error update is a replacement: once it has
\* been applied the output shows the retry message and nothing else.
C7_ErrorReplaces ==
  (pc = "done" /\ outcome = "stream_failed" /\ ~cleared) =>
    /\ SubSeq(yielded, 1, Len(yielded) - 1) = AppendUpdates(Fragments(consumed))
    /\ output_resume = MsgRetry

C7_Witness ==
  /\ pc = "done" /\ outcome = "stream_failed" /\ ~cleared
  /\ Fragments(consumed) = <<<<"a">>, <<"a", "a">>>>
  /\ outputAtStart # <<>>
  /\ output_resume = MsgRetry

\* ---------------------------------------------------------------------- C8
\* C8: every failure of the generation client, at construction, at the call
\* or in the stream, is caught: generate raises nothing and ends with the
\* retry-message update.
C8_EveryFailureCaught ==
  /\ pc # "raised"
  /\ outcome \in {"client_failed", "call_failed", "stream_failed"} =>
       /\ pc = "done"
       /\ yielded # <<>>
       /\ yielded[Len(yielded)] = Replacement(MsgRetry)

\* ---------------------------------------------------------------------- C9
\* C9: a click on Clear All, in any state, leaves the three fields empty and
\* changes nothing of the running call.
C9_ClearAll ==
  [][(last.op # "clear" /\ last'.op = "clear") =>
       /\ jd' = <<>> /\ current_resume' = <<>> /\ output_resume' = <<>>
       /\ UNCHANGED genVars]_vars

C9_Witness ==
  /\ last.op = "clear"
  /\ pc = "for_piece" /\ yielded # <<>>
  /\ args.job_description # <<>> /\ args.current_resume_template # <<>>
  /\ jd = <<>> /\ current_resume = <<>> /\ output_resume = <<>>

\* --------------------------------------------------------------------- C10
\* C10: when the stream ends without error and Clear All was not clicked
\* meanwhile, every update was an append, and the output is what it was
\* when the call began followed by the non-empty fragments in order.
C10_OutputExtended ==
  (pc = "done" /\ outcome = "ok" /\ ~cleared) =>
    /\ \A i \in 1..Len(yielded) : yielded[i].kind = "update" /\ yielded[i].append
    /\ output_resume = outputAtStart \o Concat(Fragments(consumed))

C10_Witness ==
  /\ pc = "done" /\ outcome = "ok" /\ ~cleared
  /\ generations = 2
  /\ outputAtStart = <<"a", "a", "a">>
  /\ Len(yielded) = 2
  /\ output_resume = <<"a", "a", "a", "a", "a">>

====
